---- MODULE Spec2Model ----
(***************************************************************************)
(* Model of the boss-alert core of Shemp.py: the recurrence resolver       *)
(* (parse_time_str_to_utc), the fired-alert ledger (sent_alerts and        *)
(* cleanup_old_alerts), the poll loop (poll_and_alert under tasks.loop),   *)
(* the /testpoll command, the ready handler and the refresh task.          *)
(*                                                                         *)
(* Time is counted in seconds of UTC since Monday 00:00:00 UTC of the      *)
(* first modelled week.  A clock reading is exact: the integer t is the    *)
(* instant t.000000.                                                       *)
(***************************************************************************)
EXTENDS Integers, Sequences, FiniteSets, TLC

VARIABLES
    clock,          \* the wall clock (UTC seconds), read by datetime.now(...)
    site,           \* the schedule the scraped page currently serves
    boss_data,      \* bot.boss_data: "unset" or the cached raw feed
    guild_config,   \* bot.guild_config: group -> channel (0: channel unknown)
    sent_alerts,    \* bot.sent_alerts: the ledger, key -> firing timestamp
    alerts_file,    \* alerts_sent.json as last written
    sent_alert_msg, \* bot.sent_alert_msg: group -> live message id (0: none)
    alert_msg_file, \* the file of sent_alert_msg as last written
    channel_msgs,   \* ids of the alert messages that exist on the platform
    next_id,        \* id the platform gives to the next message sent
    poll,           \* the poll_and_alert loop: task state and locals
    tp,             \* one /testpoll invocation: position and locals
    ready_count,    \* how many ready events have been handled
    refresh,        \* the refresh_boss_data loop: "unstarted" or "running"
    hist,           \* history: what fired, what was sent, what was deleted
    r_now,          \* resolver check: the clock reading handed to the resolver
    r_entry,        \* resolver check: the recurrence text handed to it
    r_out,          \* resolver check: what the resolver returned
    a_now,          \* aggregation check: the reading taken before the fetch
    a_clk,          \* aggregation check: the clock when the map is built
    a_feed,         \* aggregation check: the raw feed
    a_out           \* aggregation check: the next-occurrence maps built

sysvars == <<clock, site, boss_data, guild_config, sent_alerts, alerts_file,
             sent_alert_msg, alert_msg_file, channel_msgs, next_id, poll, tp,
             ready_count, refresh, hist>>
resvars == <<r_now, r_entry, r_out>>
aggvars == <<a_now, a_clk, a_feed, a_out>>
vars == <<sysvars, resvars, aggvars>>

---------------------------------------------------------------------------
(* Program constants *)

POLL_INTERVAL == 15
LEAD_LONG == 60
LEAD_MID == 30
LEAD_SHORT == 5
ALERT_LEAD_MINUTES == <<LEAD_LONG, LEAD_MID, LEAD_SHORT>>
CLEANUP_HOURS == 1

MINUTE == 60
HOUR == 3600
DAY == 86400
WEEK == 7 * DAY

DAYS_MAP == [d \in {"Mon", "Tue", "Wed", "Thu", "Fri", "Sat", "Sun"} |->
               CASE d = "Mon" -> 0 [] d = "Tue" -> 1 [] d = "Wed" -> 2
                 [] d = "Thu" -> 3 [] d = "Fri" -> 4 [] d = "Sat" -> 5
                 [] d = "Sun" -> 6]

(* US/Pacific: UTC-8 in winter, UTC-7 once daylight saving has begun.  The *)
(* modelled span holds one spring transition, on the Sunday of the first   *)
(* week at 02:00 local = 10:00 UTC.                                        *)
PST_OFFSET == 0 - 8 * HOUR
PDT_OFFSET == 0 - 7 * HOUR
DstBegin == 6 * DAY + 10 * HOUR
PST(utc) == IF utc >= DstBegin THEN PDT_OFFSET ELSE PST_OFFSET

---------------------------------------------------------------------------
(* parse_time_str_to_utc *)

(* A recurrence text "Tue 18:15" is the record                             *)
(*   [day |-> "Tue", hour |-> 18, minute |-> 15, shape |-> TRUE];          *)
(* shape is FALSE for a text that split() does not cut in two or whose     *)
(* hour and minute int() does not read.                                    *)
TimeStr(d, h, m) == [day |-> d, hour |-> h, minute |-> m, shape |-> TRUE]

(* "Tues 18:15": a day abbreviation that is not a key of DAYS_MAP. *)
BadTimeStr == TimeStr("Tues", 18, 15)

(* The resolver raises: ValueError from split()/int()/replace(), KeyError  *)
(* from DAYS_MAP[day_abbr].                                                *)
ParseRaises(time_str) ==
    \/ ~time_str.shape
    \/ time_str.day \notin DOMAIN DAYS_MAP
    \/ time_str.hour \notin 0..23
    \/ time_str.minute \notin 0..59

(* The local wall-clock reading of datetime.now(PST) at UTC instant now,   *)
(* as seconds on the local calendar.                                       *)
LocalOf(now) == now + PST(now)
Weekday(local) == (local \div DAY) % 7
Midnight(local) == (local \div DAY) * DAY

parse_time_str_to_utc_flipped(time_str, now) ==
    LET now_pst == LocalOf(now)
        delta_days == (DAYS_MAP[time_str.day] - Weekday(now_pst)) % 7
        target_date == now_pst + delta_days * DAY
        target_dt == Midnight(target_date) + time_str.hour * HOUR
                        + time_str.minute * MINUTE
        rolled == IF target_dt > now_pst THEN target_dt + WEEK ELSE target_dt
    IN  rolled - PST(now)

parse_time_str_to_utc_lax(time_str, now) ==
    LET now_pst == LocalOf(now)
        delta_days == (DAYS_MAP[time_str.day] - Weekday(now_pst)) % 7
        target_date == now_pst + delta_days * DAY
        target_dt == Midnight(target_date) + time_str.hour * HOUR
                        + time_str.minute * MINUTE
        rolled == IF target_dt + MINUTE <= now_pst THEN target_dt + WEEK
                  ELSE target_dt
    IN  rolled - PST(now)

(* The returned UTC instant, for a text that does not raise.  target_dt    *)
(* keeps now_pst's tzinfo through + timedelta and replace(), so the        *)
(* conversion to UTC subtracts the offset in force at now.                 *)
parse_time_str_to_utc(time_str, now) ==
    LET now_pst == LocalOf(now)
        delta_days == (DAYS_MAP[time_str.day] - Weekday(now_pst)) % 7
        target_date == now_pst + delta_days * DAY
        target_dt == Midnight(target_date) + time_str.hour * HOUR
                        + time_str.minute * MINUTE
        rolled == IF target_dt < now_pst THEN target_dt + WEEK ELSE target_dt
    IN  rolled - PST(now)

---------------------------------------------------------------------------
(* Resolver check: the resolver applied to bounded inputs *)

MaxDay == 8
ResolverHours == {0, 2, 18, 23}
ResolverMinutes == {0, 15, 59}
ResolverSeconds == {0, 1, 59}

ResolverLocals ==
    { d * DAY + h * HOUR + m * MINUTE + s :
        d \in 1..MaxDay, h \in ResolverHours, m \in ResolverMinutes,
        s \in ResolverSeconds }
ResolverNows ==
    { l - PST_OFFSET : l \in { x \in ResolverLocals : x - PST_OFFSET < DstBegin } }
    \cup
    { l - PDT_OFFSET : l \in { x \in ResolverLocals : x - PDT_OFFSET >= DstBegin } }
ResolverEntries ==
    { TimeStr(d, h, m) : d \in DOMAIN DAYS_MAP, h \in ResolverHours,
                         m \in ResolverMinutes }
    \cup {BadTimeStr}

NoResult == [state |-> "none", utc |-> 0]

ResolverInputs ==
    /\ r_now \in ResolverNows
    /\ r_entry \in ResolverEntries
    /\ r_out = NoResult

Resolve ==
    /\ r_out.state = "none"
    /\ r_out' = IF ParseRaises(r_entry)
                THEN [state |-> "raised", utc |-> 0]
                ELSE [state |-> "ok", utc |-> parse_time_str_to_utc(r_entry, r_now)]
    /\ UNCHANGED <<r_now, r_entry>>

---------------------------------------------------------------------------
(* The environment: the scraped schedule, the clock, the subscriber groups *)

Entry(n, d, h, m) == [name |-> n, time_str |-> TimeStr(d, h, m)]
Unparseable(n) == [name |-> n, time_str |-> BadTimeStr]

(* Schedules the page may serve: one spawn, the same boss again a minute   *)
(* later, the same boss again an hour later, the same row twice, and a     *)
(* row the resolver cannot read placed before and after a good one.        *)
SiteOne == << Entry("Kzarka", "Tue", 18, 15) >>
SiteNear == << Entry("Kzarka", "Tue", 18, 15), Entry("Kzarka", "Tue", 18, 16) >>
SiteFar == << Entry("Kzarka", "Tue", 18, 15), Entry("Kzarka", "Tue", 19, 15) >>
SiteBadFirst == << Unparseable("Vell"), Entry("Kzarka", "Tue", 18, 15) >>
SiteBadLast == << Entry("Kzarka", "Tue", 18, 15), Unparseable("Vell") >>
SiteTwice == << Entry("Kzarka", "Tue", 18, 15), Entry("Kzarka", "Tue", 18, 15) >>
Sites == {SiteOne, SiteNear, SiteFar, SiteTwice, SiteBadFirst, SiteBadLast}

WellFormed(feed) == \A i \in 1..Len(feed) : ~ParseRaises(feed[i].time_str)

(* Tue 18:15 Pacific of the first week, as a UTC instant. *)
Anchor == 2 * DAY + 2 * HOUR + 15 * MINUTE

(* Clock readings at which something runs: a run of readings one poll      *)
(* interval apart that starts inside the 5-minute lead window of the       *)
(* anchor spawn, and the readings exactly one hour and one hour and a      *)
(* second after the first of them.                                         *)
MaxTicks == 6
FirstReading == Anchor - LEAD_SHORT * MINUTE - POLL_INTERVAL
Readings ==
    { FirstReading + k * POLL_INTERVAL : k \in 0..MaxTicks }
    \cup { FirstReading + CLEANUP_HOURS * HOUR,
           FirstReading + CLEANUP_HOURS * HOUR + 1 }

AllGroups == << "g1", "g2" >>
Groups == { AllGroups[i] : i \in 1..Len(AllGroups) }

(* guild_config as loaded at start: both groups configured; the channel of *)
(* one of them may be one the client cannot resolve (channel 0).           *)
Configs ==
    { [g \in Groups |-> IF g = "g1" THEN 1 ELSE c] : c \in {0, 2} }
    \cup { [g \in Groups |-> IF g = "g1" THEN 0 ELSE 2] }

(* dict.items() order: insertion order of the configured groups. *)
GroupOrder(cfg) == SelectSeq(AllGroups, LAMBDA g : g \in DOMAIN cfg)

---------------------------------------------------------------------------
(* The ledger *)

Put(f, k, v) == [x \in DOMAIN f \cup {k} |-> IF x = k THEN v ELSE f[x]]
Drop(f, ks) == [x \in DOMAIN f \ ks |-> f[x]]
EmptyMap == [x \in {} |-> 0]

alert_id(g, name, m) == << g, name, m >>

InLeadMinutes_quarter(m) == m \in {LEAD_LONG, LEAD_MID, 15, LEAD_SHORT}

(* Line 808: minutes_until in ALERT_LEAD_MINUTES *)
InLeadMinutes(m) == \E i \in 1..Len(ALERT_LEAD_MINUTES) : ALERT_LEAD_MINUTES[i] = m

(* cleanup_old_alerts: the ids to delete at clock reading now_ts. *)
to_delete_short(alerts, now_ts, hours) ==
    { aid \in DOMAIN alerts : alerts[aid] < now_ts - hours * MINUTE }

to_delete_inclusive(alerts, now_ts, hours) ==
    { aid \in DOMAIN alerts : alerts[aid] <= now_ts - hours * HOUR }

to_delete_never(alerts, now_ts, hours) == {}

to_delete_all(alerts, now_ts, hours) == DOMAIN alerts

to_delete(alerts, now_ts, hours) ==
    { aid \in DOMAIN alerts : alerts[aid] < now_ts - hours * HOUR }

(* minutes_until = int((spawn - now).total_seconds() // 60) *)
minutes_until(spawn, now) == (spawn - now) \div MINUTE

---------------------------------------------------------------------------
(* poll_and_alert *)

(* The loop object and the locals of the running iteration.                *)
(*   task: "unstarted", "running" or "failed" (the loop's task has ended   *)
(*         with an exception)                                              *)
(*   pc:   "sleep" between iterations, else the await the iteration is     *)
(*         suspended at: "fetch_msg", "delete" or "send"                   *)
(* visited, dfail, sfail, wfail, retried and ended describe the latest     *)
(* iteration: the groups it evaluated, those with a failed                 *)
(* fetch/delete/send, those with a failed send, whether one of its file    *)
(* writes failed, whether it started after an iteration with a failed      *)
(* write, and how it ended.  tasks counts the asyncio tasks of the loop    *)
(* that have been created and have not ended.                              *)
PollIdle(task) ==
    [task |-> task, tasks |-> IF task = "running" THEN 1 ELSE 0,
     pc |-> "sleep", now |-> 0, bosses |-> << >>,
     idx |-> 0, messages_to_send |-> << >>, last_msg_id |-> 0,
     visited |-> {}, dfail |-> {}, sfail |-> {}, wfail |-> FALSE,
     retried |-> FALSE, ended |-> "none", used |-> 0]

(* What the tasks.loop wrapper does with an exception that leaves the      *)
(* iteration: OSError is one of the errors it retries after a backoff      *)
(* (reconnect is left at its default); any other exception ends the task.  *)
LoopAfterError_fatal(p, exc) ==
    [p EXCEPT !.pc = "sleep", !.task = "failed", !.tasks = @ - 1, !.ended = exc,
              !.idx = 0, !.bosses = << >>, !.messages_to_send = << >>,
              !.last_msg_id = 0, !.used = 0]

LoopAfterError(p, exc) ==
    [p EXCEPT !.pc = "sleep",
              !.task = IF exc = "OSError" THEN "running" ELSE "failed",
              !.tasks = IF exc = "OSError" THEN @ ELSE @ - 1,
              !.ended = exc,
              !.idx = 0, !.bosses = << >>, !.messages_to_send = << >>,
              !.last_msg_id = 0, !.used = 0]

(* Lines 803-818 for one group: the entries from position i on, in feed    *)
(* order.  acc carries sent_alerts, messages_to_send and the firing log.   *)
RECURSIVE EvalEntries_nocheck(_, _, _, _, _, _)
EvalEntries_nocheck(g, bosses, i, now, clk, acc) ==
    IF i > Len(bosses) THEN acc
    ELSE IF ParseRaises(bosses[i].time_str) THEN [acc EXCEPT !.raised = TRUE]
    ELSE
      LET name == bosses[i].name
          spawn == parse_time_str_to_utc(bosses[i].time_str, clk)
          m == minutes_until(spawn, now)
      IN  IF InLeadMinutes(m)
          THEN EvalEntries_nocheck(g, bosses, i + 1, now, clk,
                 [acc EXCEPT
                    !.alerts = Put(@, alert_id(g, name, m), now),
                    !.msgs = Append(@, [name |-> name, m |-> m, occ |-> spawn]),
                    !.fired = Append(@, [key |-> alert_id(g, name, m),
                                         at |-> now, occ |-> spawn])])
          ELSE EvalEntries_nocheck(g, bosses, i + 1, now, clk, acc)

RECURSIVE EvalEntries(_, _, _, _, _, _)
EvalEntries(g, bosses, i, now, clk, acc) ==
    IF i > Len(bosses) THEN acc
    ELSE IF ParseRaises(bosses[i].time_str) THEN [acc EXCEPT !.raised = TRUE]
    ELSE
      LET name == bosses[i].name
          spawn == parse_time_str_to_utc(bosses[i].time_str, clk)
          m == minutes_until(spawn, now)
      IN  IF InLeadMinutes(m) /\ alert_id(g, name, m) \notin DOMAIN acc.alerts
          THEN EvalEntries(g, bosses, i + 1, now, clk,
                 [acc EXCEPT
                    !.alerts = Put(@, alert_id(g, name, m), now),
                    !.msgs = Append(@, [name |-> name, m |-> m, occ |-> spawn]),
                    !.fired = Append(@, [key |-> alert_id(g, name, m),
                                         at |-> now, occ |-> spawn])])
          ELSE EvalEntries(g, bosses, i + 1, now, clk, acc)

no_channel_never(g) == FALSE

(* Lines 796-799: channel = bot.get_channel(config.get("channel_id")) is   *)
(* None for group g.                                                       *)
no_channel(g) == guild_config[g] = 0

(* The iteration from the group at position i of guild_config.items() up   *)
(* to its next await or its end (lines 795-824); no other coroutine runs   *)
(* in between.  st carries poll, sent_alerts, alerts_file and the firing   *)
(* log; save_ok is whether the write of line 821, if reached, succeeds.    *)
(* The iterator of line 795 raises RuntimeError from its next step when    *)
(* the dict no longer has the number of keys it had when the iterator was  *)
(* made (poll.used).                                                       *)
(* Line 795, a step of the iterator of bot.guild_config.items(): the dict  *)
(* has changed size since the iterator was made.                           *)
resized(p) == Cardinality(DOMAIN guild_config) # p.used

snapshot_live(p) == boss_data

(* Line 803: the local bosses that the iteration bound at line 789. *)
snapshot(p) == p.bosses

RECURSIVE RunGroups(_, _, _, _)
RunGroups(i, st, clk, save_ok) ==
    LET order == GroupOrder(guild_config) IN
    IF resized(st.poll)
    THEN [st EXCEPT !.poll = LoopAfterError(@, "RuntimeError")]
    ELSE IF i > Len(order)
    THEN [st EXCEPT !.poll.pc = "sleep", !.poll.ended = "returned",
                    !.poll.idx = 0, !.poll.bosses = << >>,
                    !.poll.messages_to_send = << >>, !.poll.last_msg_id = 0,
                    !.poll.used = 0]
    ELSE
      LET g == order[i] IN
      IF no_channel(g)
      THEN RunGroups(i + 1, st, clk, save_ok)
      ELSE
        LET ev == EvalEntries(g, snapshot(st.poll), 1, st.poll.now, clk,
                     [alerts |-> st.alerts, msgs |-> << >>, fired |-> st.fired,
                      raised |-> FALSE])
            st1 == [st EXCEPT !.alerts = ev.alerts, !.fired = ev.fired]
        IN  IF ev.raised
            THEN [st1 EXCEPT !.poll = LoopAfterError(@, "ParseError")]
            ELSE IF ev.msgs = << >>
            THEN RunGroups(i + 1, [st1 EXCEPT !.poll.visited = @ \cup {g}],
                           clk, save_ok)
            ELSE IF ~save_ok
            THEN [st1 EXCEPT !.poll = LoopAfterError([@ EXCEPT !.wfail = TRUE],
                                                     "OSError")]
            ELSE [st1 EXCEPT
                    !.file = ev.alerts,
                    !.poll.visited = @ \cup {g},
                    !.poll.idx = i,
                    !.poll.messages_to_send = ev.msgs,
                    !.poll.last_msg_id = sent_alert_msg[g],
                    !.poll.pc = IF sent_alert_msg[g] # 0 THEN "fetch_msg"
                                ELSE "send"]

(* The history kept for the properties:                                    *)
(*   fired:    every (key, tick time, occurrence) put into a firing set    *)
(*   emitted:  how many times each alert line (group, boss, minutes,       *)
(*             occurrence) has been part of a message sent by the loop     *)
(*   sent_to:  the ids of the messages sent to each group                  *)
(*   attempts: the ids whose removal has been requested (the               *)
(*             delete-previous block was entered for them)                 *)
(*   unrequested: the ids of the messages that were followed by another    *)
(*             message to the same group before their removal was          *)
(*             requested                                                   *)
(*   restarts: how many times the process has been started again           *)
(*   nominal:  so far every iteration started one poll interval after the  *)
(*             one before, found a cached feed without unreadable rows and *)
(*             was over before the clock moved, and no fetch, delete, send *)
(*             or file write has failed                                    *)
HistInit ==
    [fired |-> << >>, emitted |-> EmptyMap, sent_to |-> [g \in Groups |-> {}],
     attempts |-> {}, unrequested |-> {}, nominal |-> TRUE, restarts |-> 0]

(* The history after message id has been sent to group g. *)
Delivered(h, g, id) ==
    [h EXCEPT !.sent_to[g] = @ \cup {id},
              !.unrequested = @ \cup (h.sent_to[g] \ h.attempts)]

RECURSIVE Emitted(_, _, _, _)
Emitted(em, g, msgs, k) ==
    IF k > Len(msgs) THEN em
    ELSE LET line == [g |-> g, name |-> msgs[k].name, m |-> msgs[k].m,
                      occ |-> msgs[k].occ]
         IN  Emitted(Put(em, line, IF line \in DOMAIN em THEN em[line] + 1 ELSE 1),
                     g, msgs, k + 1)

Requested(h, p) ==
    IF p.pc = "fetch_msg" THEN [h EXCEPT !.attempts = @ \cup {p.last_msg_id}] ELSE h

Bundle == [poll |-> poll, alerts |-> sent_alerts, file |-> alerts_file,
           fired |-> hist.fired]

(* The bundle written back to the variables. *)
Commit(st, h) ==
    /\ poll' = st.poll
    /\ sent_alerts' = st.alerts
    /\ alerts_file' = st.file
    /\ hist' = Requested([h EXCEPT !.fired = st.fired,
                                   !.nominal = @ /\ ~st.poll.wfail
                                                 /\ st.poll.task = "running"
                                                 /\ st.poll.now = clock],
                         st.poll)

cached_or_page == IF boss_data = "unset" \/ boss_data = << >> THEN site ELSE boss_data

(* Line 789: bosses = getattr(bot, "boss_data", None) *)
cached_bosses == boss_data

(* One iteration starts (lines 785-793, then the groups up to the first    *)
(* await).  cleanup_ok and save_ok: whether the writes of lines 257 and    *)
(* 821, if reached, succeed.                                               *)
PollStart(cleanup_ok, save_ok) ==
    /\ poll.task = "running"
    /\ poll.pc = "sleep"
    /\ LET gone == to_delete(sent_alerts, clock, CLEANUP_HOURS)
           swept == Drop(sent_alerts, gone)
           on_time == poll.now = 0 \/ clock = poll.now + POLL_INTERVAL
           p0 == [PollIdle("running") EXCEPT !.now = clock,
                                             !.tasks = poll.tasks,
                                             !.retried = poll.wfail]
           h0 == [hist EXCEPT !.nominal = @ /\ on_time]
       IN  IF gone # {} /\ ~cleanup_ok
           THEN Commit([Bundle EXCEPT
                          !.poll = LoopAfterError([p0 EXCEPT !.wfail = TRUE],
                                                  "OSError"),
                          !.alerts = swept], h0)
           ELSE
             LET st0 == [Bundle EXCEPT !.poll = p0, !.alerts = swept,
                                       !.file = IF gone # {} THEN swept ELSE @]
             IN  IF cached_bosses = "unset" \/ cached_bosses = << >>
                 THEN Commit([st0 EXCEPT !.poll.ended = "skipped"],
                             [h0 EXCEPT !.nominal = FALSE])
                 ELSE Commit(RunGroups(1, [st0 EXCEPT !.poll.bosses = cached_bosses,
                                             !.poll.used =
                                                Cardinality(DOMAIN guild_config)],
                                       clock, save_ok),
                             [h0 EXCEPT !.nominal = @ /\ WellFormed(cached_bosses)])
    /\ UNCHANGED <<clock, site, boss_data, guild_config, sent_alert_msg, alert_msg_file,
                   channel_msgs, next_id, tp, ready_count, refresh, resvars, aggvars>>

PollGroup == GroupOrder(guild_config)[poll.idx]

(* await channel.fetch_message(last_msg_id), line 827 *)
PollFetched(ok) ==
    /\ poll.pc = "fetch_msg"
    /\ ok => poll.last_msg_id \in channel_msgs
    /\ poll' = IF ok THEN [poll EXCEPT !.pc = "delete"]
               ELSE [poll EXCEPT !.pc = "send", !.dfail = @ \cup {PollGroup}]
    /\ hist' = [hist EXCEPT !.nominal = @ /\ ok]
    /\ UNCHANGED <<clock, site, boss_data, guild_config, sent_alerts, alerts_file,
                   sent_alert_msg, alert_msg_file, channel_msgs, next_id, tp, ready_count, refresh, resvars, aggvars>>

(* await last_msg.delete(), line 828 *)
PollDeleted(ok) ==
    /\ poll.pc = "delete"
    /\ ok => poll.last_msg_id \in channel_msgs
    /\ channel_msgs' = IF ok THEN channel_msgs \ {poll.last_msg_id} ELSE channel_msgs
    /\ poll' = IF ok THEN [poll EXCEPT !.pc = "send"]
               ELSE [poll EXCEPT !.pc = "send", !.dfail = @ \cup {PollGroup}]
    /\ hist' = [hist EXCEPT !.nominal = @ /\ ok]
    /\ UNCHANGED <<clock, site, boss_data, guild_config, sent_alerts, alerts_file,
                   sent_alert_msg, alert_msg_file, next_id, tp, ready_count, refresh, resvars, aggvars>>

(* What a failed channel.send() does to the iteration: lines 833-838 catch *)
(* it, and the loop over the groups goes on.                               *)
AfterSendFailure_uncaught(st, i, clk, save_ok) ==
    [st EXCEPT !.poll = LoopAfterError(@, "HTTPException")]

AfterSendFailure_rollback(st, i, clk, save_ok) ==
    RunGroups(i + 1,
              [st EXCEPT !.alerts =
                 Drop(@, { k \in DOMAIN st.alerts :
                             k[1] = GroupOrder(guild_config)[i]
                                /\ st.alerts[k] = st.poll.now })],
              clk, save_ok)

AfterSendFailure(st, i, clk, save_ok) == RunGroups(i + 1, st, clk, save_ok)

(* await channel.send(...), lines 833-838, then the following groups up to *)
(* the next await.  file_ok: whether the write of line 836 succeeds.       *)
PollSent(ok, file_ok, save_ok) ==
    /\ poll.pc = "send"
    /\ LET g == PollGroup
           st == [Bundle EXCEPT !.poll.messages_to_send = << >>,
                                !.poll.last_msg_id = 0,
                                !.poll.wfail = @ \/ (ok /\ ~file_ok)]
       IN  IF ok
           THEN /\ next_id' = next_id + 1
                /\ channel_msgs' = channel_msgs \cup {next_id}
                /\ sent_alert_msg' = [sent_alert_msg EXCEPT ![g] = next_id]
                /\ alert_msg_file' = IF file_ok THEN sent_alert_msg'
                                     ELSE alert_msg_file
                /\ Commit(RunGroups(poll.idx + 1, st, clock, save_ok),
                          [Delivered(hist, g, next_id) EXCEPT
                             !.emitted = Emitted(@, g, poll.messages_to_send, 1)])
           ELSE /\ UNCHANGED <<next_id, channel_msgs, sent_alert_msg, alert_msg_file>>
                /\ Commit(AfterSendFailure(
                            [st EXCEPT !.poll.dfail = @ \cup {g},
                                       !.poll.sfail = @ \cup {g}],
                            poll.idx, clock, save_ok),
                          [hist EXCEPT !.nominal = FALSE])
    /\ UNCHANGED <<clock, site, boss_data, guild_config, tp, ready_count,
                   refresh, resvars, aggvars>>

---------------------------------------------------------------------------
(* fetch_bosses / BossScraper.scrape *)

(* What one scrape returns: the schedule, an empty list (no main table),   *)
(* or an exception from the request ("raise").                             *)
ScrapeResults == {"ok", "empty", "raise"}
Scraped(result) == IF result = "ok" THEN site ELSE << >>

---------------------------------------------------------------------------
(* /testpoll *)

MaxTestPolls == 1

TpIdle(runs) ==
    [pc |-> "idle", g |-> "none", now |-> 0, last_msg_id |-> 0, runs |-> runs]

(* Lines 546-552: the soonest spawn per boss, entries taken in feed order. *)
RECURSIVE next_spawns_latest(_, _, _, _, _)
next_spawns_latest(bosses, i, now, clk, acc) ==
    IF i > Len(bosses) THEN acc
    ELSE
      LET name == bosses[i].name
          spawn_utc == parse_time_str_to_utc(bosses[i].time_str, clk)
      IN  IF spawn_utc < now
          THEN next_spawns_latest(bosses, i + 1, now, clk, acc)
          ELSE IF name \notin DOMAIN acc \/ spawn_utc > acc[name]
          THEN next_spawns_latest(bosses, i + 1, now, clk, Put(acc, name, spawn_utc))
          ELSE next_spawns_latest(bosses, i + 1, now, clk, acc)

RECURSIVE next_spawns(_, _, _, _, _)
next_spawns(bosses, i, now, clk, acc) ==
    IF i > Len(bosses) THEN acc
    ELSE
      LET name == bosses[i].name
          spawn_utc == parse_time_str_to_utc(bosses[i].time_str, clk)
      IN  IF spawn_utc < now
          THEN next_spawns(bosses, i + 1, now, clk, acc)
          ELSE IF name \notin DOMAIN acc \/ spawn_utc < acc[name]
          THEN next_spawns(bosses, i + 1, now, clk, Put(acc, name, spawn_utc))
          ELSE next_spawns(bosses, i + 1, now, clk, acc)

(* Lines 864-875: the same fold in on_ready, where an entry whose text     *)
(* the resolver cannot read is left out by the try/except of its own.      *)
summary_spawns(bosses, now, clk) ==
    next_spawns(SelectSeq(bosses, LAMBDA b : ~ParseRaises(b.time_str)),
                1, now, clk, EmptyMap)

Max0(x) == IF x < 0 THEN 0 ELSE x

(* Lines 559-564: one line per boss of next_spawns, as (boss, minutes). *)
messages_to_send(bosses, now, clk) ==
    LET spawns == next_spawns(bosses, 1, now, clk, EmptyMap)
    IN  { [name |-> n, m |-> Max0(minutes_until(spawns[n], now))] :
          n \in DOMAIN spawns }

(* Lines 528-538: the command arrives for group g. *)
TestPollStart(g) ==
    /\ tp.pc = "idle"
    /\ tp.runs < MaxTestPolls
    /\ tp' = IF g \in DOMAIN guild_config /\ guild_config[g] # 0
             THEN [TpIdle(tp.runs + 1) EXCEPT !.pc = "scrape", !.g = g,
                                              !.now = clock]
             ELSE TpIdle(tp.runs + 1)
    /\ UNCHANGED <<clock, site, boss_data, guild_config, sent_alerts, alerts_file,
                   sent_alert_msg, alert_msg_file, channel_msgs, next_id, poll, ready_count,
                   refresh, hist, resvars, aggvars>>

(* await fetch_bosses("NA") returns, lines 540-574 up to the next await. *)
TestPollScraped(result) ==
    /\ tp.pc = "scrape"
    /\ LET bosses == Scraped(result)
           last == sent_alert_msg[tp.g]
       IN  IF result = "raise" \/ bosses = << >> \/ ~WellFormed(bosses)
              \/ messages_to_send(bosses, tp.now, clock) = {}
           THEN /\ tp' = TpIdle(tp.runs)
                /\ hist' = hist
           ELSE /\ tp' = [tp EXCEPT !.now = 0, !.last_msg_id = last,
                                    !.pc = IF last # 0 THEN "fetch_msg" ELSE "send"]
                /\ hist' = Requested(hist, tp')
    /\ UNCHANGED <<clock, site, boss_data, guild_config, sent_alerts, alerts_file,
                   sent_alert_msg, alert_msg_file, channel_msgs, next_id, poll, ready_count,
                   refresh, resvars, aggvars>>

(* await channel.fetch_message(last_msg_id), line 571 *)
TestPollFetched(ok) ==
    /\ tp.pc = "fetch_msg"
    /\ ok => tp.last_msg_id \in channel_msgs
    /\ tp' = [tp EXCEPT !.pc = IF ok THEN "delete" ELSE "send"]
    /\ UNCHANGED <<clock, site, boss_data, guild_config, sent_alerts, alerts_file,
                   sent_alert_msg, alert_msg_file, channel_msgs, next_id, poll, ready_count,
                   refresh, hist, resvars, aggvars>>

(* await last_msg.delete(), line 572 *)
TestPollDeleted(ok) ==
    /\ tp.pc = "delete"
    /\ ok => tp.last_msg_id \in channel_msgs
    /\ channel_msgs' = IF ok THEN channel_msgs \ {tp.last_msg_id} ELSE channel_msgs
    /\ tp' = [tp EXCEPT !.pc = "send"]
    /\ UNCHANGED <<clock, site, boss_data, guild_config, sent_alerts, alerts_file,
                   sent_alert_msg, alert_msg_file, next_id, poll, ready_count, refresh, hist,
                   resvars, aggvars>>

TestPollSent_recording(ok) ==
    /\ tp.pc = "send"
    /\ IF ok
       THEN /\ next_id' = next_id + 1
            /\ channel_msgs' = channel_msgs \cup {next_id}
            /\ sent_alert_msg' = [sent_alert_msg EXCEPT ![tp.g] = next_id]
            /\ alert_msg_file' = sent_alert_msg'
            /\ hist' = Delivered(hist, tp.g, next_id)
            /\ sent_alerts' = Put(sent_alerts,
                                  alert_id(tp.g, site[1].name, LEAD_SHORT), clock)
       ELSE UNCHANGED <<next_id, channel_msgs, sent_alert_msg, alert_msg_file, hist, sent_alerts>>
    /\ tp' = TpIdle(tp.runs)
    /\ UNCHANGED <<clock, site, boss_data, guild_config, alerts_file,
                   poll, ready_count, refresh, resvars, aggvars>>

(* await channel.send(...), lines 576-585 *)
TestPollSent(ok) ==
    /\ tp.pc = "send"
    /\ IF ok
       THEN /\ next_id' = next_id + 1
            /\ channel_msgs' = channel_msgs \cup {next_id}
            /\ sent_alert_msg' = [sent_alert_msg EXCEPT ![tp.g] = next_id]
            /\ alert_msg_file' = sent_alert_msg'
            /\ hist' = Delivered(hist, tp.g, next_id)
       ELSE UNCHANGED <<next_id, channel_msgs, sent_alert_msg, alert_msg_file, hist>>
    /\ tp' = TpIdle(tp.runs)
    /\ UNCHANGED <<clock, site, boss_data, guild_config, sent_alerts, alerts_file,
                   poll, ready_count, refresh, resvars, aggvars>>

(* /setupalerts in group g, lines 412-417: the group's entry of            *)
(* guild_config is set (added when the group had none) before the await    *)
(* of the reply.  The channel a group chooses is its own.                  *)
ChannelOf(g) == IF g = AllGroups[1] THEN 1 ELSE 2

setupalerts(g) ==
    /\ IF g \in DOMAIN guild_config THEN guild_config[g] # ChannelOf(g) ELSE TRUE
    /\ guild_config' = Put(guild_config, g, ChannelOf(g))
    /\ UNCHANGED <<clock, site, boss_data, sent_alerts, alerts_file,
                   sent_alert_msg, alert_msg_file, channel_msgs, next_id, poll, tp, ready_count,
                   refresh, hist, resvars, aggvars>>

---------------------------------------------------------------------------
(* on_ready and refresh_boss_data *)

MaxReady == 2

(* Lines 857-894, from the return of fetch_bosses on: the cache is         *)
(* assigned unless the fetch raised, and the poll loop is started unless   *)
(* it is running.                                                          *)
start_unguarded(p) ==
    [PollIdle("running") EXCEPT !.tasks = p.tasks + 1]

(* Lines 892-893: poll_and_alert.start() unless is_running(); start()      *)
(* creates the loop's task before it returns, and no await lies between    *)
(* the test and the call.                                                  *)
start(p) ==
    IF p.task = "running" THEN p
    ELSE [PollIdle("running") EXCEPT !.tasks = p.tasks + 1]

on_ready(result) ==
    /\ ready_count < MaxReady
    /\ ready_count' = ready_count + 1
    /\ boss_data' = IF result = "raise" THEN boss_data ELSE Scraped(result)
    /\ poll' = start(poll)
    /\ hist' = [hist EXCEPT !.nominal = @ /\ result = "ok"]
    /\ UNCHANGED <<clock, site, guild_config, sent_alerts, alerts_file,
                   sent_alert_msg, alert_msg_file, channel_msgs, next_id, tp, refresh, resvars, aggvars>>

(* Lines 770-780: one iteration of the refresh loop.  The loop object is   *)
(* created by the decorator; no statement of the program starts it, so     *)
(* refresh stays "unstarted" and this step is no part of Next.             *)
refresh_boss_data(result) ==
    /\ refresh = "running"
    /\ boss_data' = IF result = "raise" THEN boss_data ELSE Scraped(result)
    /\ UNCHANGED <<clock, site, guild_config, sent_alerts, alerts_file,
                   sent_alert_msg, alert_msg_file, channel_msgs, next_id, poll, tp, ready_count,
                   refresh, hist, resvars, aggvars>>

---------------------------------------------------------------------------
(* The process is started again *)

MaxRestarts == 1

load_json_fresh(file) == EmptyMap

(* _load_json, lines 226-231: the mapping that json.dump wrote (string     *)
(* keys, numbers as values) as json.load reads it.                         *)
load_json(file) == [k \in DOMAIN file |-> file[k]]

(* The process ends at any point of any handler and is started again:      *)
(* __init__ (lines 218-224) loads the ledger and the message references    *)
(* from their files; the cache, the tasks and the locals of the old        *)
(* process are gone, the files and the messages on the platform stay.      *)
(* ready_count goes on counting the ready events of all the processes.     *)
restart ==
    /\ hist.restarts < MaxRestarts
    /\ sent_alerts' = load_json(alerts_file)
    /\ sent_alert_msg' = alert_msg_file
    /\ boss_data' = "unset"
    /\ poll' = PollIdle("unstarted")
    /\ tp' = TpIdle(tp.runs)
    /\ refresh' = "unstarted"
    /\ hist' = [hist EXCEPT !.restarts = @ + 1]
    /\ UNCHANGED <<clock, site, guild_config, alerts_file, alert_msg_file,
                   channel_msgs, next_id, ready_count, resvars, aggvars>>

---------------------------------------------------------------------------
(* The clock and the specifications *)

Advance ==
    /\ clock' \in { t \in Readings : t > clock }
    /\ UNCHANGED <<site, boss_data, guild_config, sent_alerts, alerts_file,
                   sent_alert_msg, alert_msg_file, channel_msgs, next_id, poll, tp, ready_count,
                   refresh, hist, resvars, aggvars>>

ResolverIdle ==
    /\ r_now = 0
    /\ r_entry = TimeStr("Mon", 0, 0)
    /\ r_out = NoResult

AggregateIdle ==
    /\ a_now = 0
    /\ a_clk = 0
    /\ a_feed = << >>
    /\ a_out = [state |-> "none"]

Init ==
    /\ clock = FirstReading
    /\ site \in Sites
    /\ boss_data = "unset"
    /\ guild_config \in Configs
    /\ sent_alerts = EmptyMap
    /\ alerts_file = EmptyMap
    /\ sent_alert_msg = [g \in Groups |-> 0]
    /\ alert_msg_file = [g \in Groups |-> 0]
    /\ channel_msgs = {}
    /\ next_id = 1
    /\ poll = PollIdle("unstarted")
    /\ tp = TpIdle(0)
    /\ ready_count = 0
    /\ refresh = "unstarted"
    /\ hist = HistInit
    /\ ResolverIdle
    /\ AggregateIdle

Next ==
    \/ Advance
    \/ \E result \in ScrapeResults : on_ready(result)
    \/ \E cleanup_ok, save_ok \in BOOLEAN : PollStart(cleanup_ok, save_ok)
    \/ \E ok \in BOOLEAN : PollFetched(ok)
    \/ \E ok \in BOOLEAN : PollDeleted(ok)
    \/ \E ok, file_ok, save_ok \in BOOLEAN : PollSent(ok, file_ok, save_ok)
    \/ \E g \in Groups : TestPollStart(g)
    \/ \E result \in ScrapeResults : TestPollScraped(result)
    \/ \E ok \in BOOLEAN : TestPollFetched(ok)
    \/ \E ok \in BOOLEAN : TestPollDeleted(ok)
    \/ \E ok \in BOOLEAN : TestPollSent(ok)

Spec == Init /\ [][Next]_vars

SystemIdle ==
    /\ clock = FirstReading
    /\ site = SiteOne
    /\ boss_data = "unset"
    /\ guild_config = [g \in Groups |-> 0]
    /\ sent_alerts = EmptyMap
    /\ alerts_file = EmptyMap
    /\ sent_alert_msg = [g \in Groups |-> 0]
    /\ alert_msg_file = [g \in Groups |-> 0]
    /\ channel_msgs = {}
    /\ next_id = 1
    /\ poll = PollIdle("unstarted")
    /\ tp = TpIdle(0)
    /\ ready_count = 0
    /\ refresh = "unstarted"
    /\ hist = HistInit

NextResolver == Resolve /\ UNCHANGED <<sysvars, aggvars>>

InitResolver == SystemIdle /\ ResolverInputs /\ AggregateIdle
SpecResolver == InitResolver /\ [][NextResolver]_vars

(* The poll loop with the ready event and the clock, no command arriving. *)
NextLoop ==
    \/ Advance
    \/ \E result \in ScrapeResults : on_ready(result)
    \/ \E cleanup_ok, save_ok \in BOOLEAN : PollStart(cleanup_ok, save_ok)
    \/ \E ok \in BOOLEAN : PollFetched(ok)
    \/ \E ok \in BOOLEAN : PollDeleted(ok)
    \/ \E ok, file_ok, save_ok \in BOOLEAN : PollSent(ok, file_ok, save_ok)

SpecLoop == Init /\ [][NextLoop]_vars

(* The poll loop beside /setupalerts; at start the second group may have   *)
(* no entry in guild_config yet.                                           *)
SetupConfigs == Configs \cup { [g \in {AllGroups[1]} |-> 1] }

InitSetup ==
    /\ clock = FirstReading
    /\ site \in Sites
    /\ boss_data = "unset"
    /\ guild_config \in SetupConfigs
    /\ sent_alerts = EmptyMap
    /\ alerts_file = EmptyMap
    /\ sent_alert_msg = [g \in Groups |-> 0]
    /\ alert_msg_file = [g \in Groups |-> 0]
    /\ channel_msgs = {}
    /\ next_id = 1
    /\ poll = PollIdle("unstarted")
    /\ tp = TpIdle(0)
    /\ ready_count = 0
    /\ refresh = "unstarted"
    /\ hist = HistInit
    /\ ResolverIdle
    /\ AggregateIdle

NextSetup ==
    \/ NextLoop
    \/ \E g \in Groups : setupalerts(g)

SpecSetup == InitSetup /\ [][NextSetup]_vars

(* The loop beside /testpoll at one reading of the clock. *)
NextCommands ==
    \/ \E result \in ScrapeResults : on_ready(result)
    \/ \E cleanup_ok, save_ok \in BOOLEAN : PollStart(cleanup_ok, save_ok)
    \/ \E ok \in BOOLEAN : PollFetched(ok)
    \/ \E ok \in BOOLEAN : PollDeleted(ok)
    \/ \E ok, file_ok, save_ok \in BOOLEAN : PollSent(ok, file_ok, save_ok)
    \/ \E g \in Groups : TestPollStart(g)
    \/ \E result \in ScrapeResults : TestPollScraped(result)
    \/ \E ok \in BOOLEAN : TestPollFetched(ok)
    \/ \E ok \in BOOLEAN : TestPollDeleted(ok)
    \/ \E ok \in BOOLEAN : TestPollSent(ok)

SpecCommands == Init /\ [][NextCommands]_vars

(* The poll loop of a process that may be started again, on schedules     *)
(* that resolve.                                                           *)
InitRestart ==
    /\ clock = FirstReading
    /\ site \in {SiteOne, SiteFar}
    /\ boss_data = "unset"
    /\ guild_config = [g \in Groups |-> ChannelOf(g)]
    /\ sent_alerts = EmptyMap
    /\ alerts_file = EmptyMap
    /\ sent_alert_msg = [g \in Groups |-> 0]
    /\ alert_msg_file = [g \in Groups |-> 0]
    /\ channel_msgs = {}
    /\ next_id = 1
    /\ poll = PollIdle("unstarted")
    /\ tp = TpIdle(0)
    /\ ready_count = 0
    /\ refresh = "unstarted"
    /\ hist = HistInit
    /\ ResolverIdle
    /\ AggregateIdle

NextRestart ==
    \/ NextLoop
    \/ restart

SpecRestart == InitRestart /\ [][NextRestart]_vars

---------------------------------------------------------------------------
(* Properties of the resolver, under SpecResolver *)

(* The resolved text names the weekday, hour and minute of the local       *)
(* reading of r_now.                                                       *)
ResolverTie ==
    /\ r_out.state = "ok"
    /\ DAYS_MAP[r_entry.day] = Weekday(LocalOf(r_now))
    /\ r_entry.hour = (LocalOf(r_now) % DAY) \div HOUR
    /\ r_entry.minute = (LocalOf(r_now) % HOUR) \div MINUTE
SecondsIntoMinute == LocalOf(r_now) % MINUTE

(* C3: for every recurrence text the resolver reads and every current      *)
(* instant t, the returned instant lies in the closed interval from t to   *)
(* t plus seven days.                                                      *)
C3_ResolverWithinWeek ==
    r_out.state = "ok" => /\ r_now <= r_out.utc
                          /\ r_out.utc <= r_now + WEEK

(* C3 witness: a text whose minute began before t resolves to the          *)
(* occurrence of next week, within a minute of the upper end.              *)
C3_Witness_RolledAWeek ==
    /\ r_out.state = "ok"
    /\ r_out.utc > r_now + WEEK - MINUTE
    /\ r_out.utc <= r_now + WEEK

(* C4 as stated: when the text names the current weekday, hour and         *)
(* minute, the resolver returns the occurrence one week later, that is     *)
(* the start of the current minute plus seven days, never an instant of    *)
(* the current minute.                                                     *)
C4_TieRollsAWeek ==
    ResolverTie => r_out.utc = r_now - SecondsIntoMinute + WEEK

(* C4 amended: on such a tie the resolver returns the occurrence one week  *)
(* later when the current instant is past the start of the minute, and     *)
(* the current instant itself when it is exactly the start of the minute.  *)
C4_TieRollsUnlessOnTheMinute ==
    ResolverTie =>
        IF SecondsIntoMinute = 0
        THEN r_out.utc = r_now
        ELSE r_out.utc = r_now - SecondsIntoMinute + WEEK

(* C4 witness: a tie resolved 59 seconds into the minute. *)
C4_Witness_TieInsideMinute ==
    ResolverTie /\ SecondsIntoMinute = 59
---------------------------------------------------------------------------
(* Properties of the poll loop, under SpecLoop *)

(* The groups whose configured channel the client resolves. *)
Targets == { g \in Groups : guild_config[g] # 0 }

(* The latest iteration has gone through all its groups or was left by an  *)
(* exception, and the loop waits for the next one.                         *)
TickOver == poll.pc = "sleep" /\ poll.ended \in {"returned", "ParseError", "OSError"}

(* C1: a key (group, subject, lead minutes) that was put into a tick's     *)
(* firing set is not put into a firing set again, by the same tick or a    *)
(* later one, within the retention window of one hour after that firing.   *)
C1_AtMostOncePerRetention ==
    \A i, j \in 1..Len(hist.fired) :
        (i < j /\ hist.fired[i].key = hist.fired[j].key)
            => hist.fired[j].at - hist.fired[i].at > CLEANUP_HOURS * HOUR

(* C1 witness: a key has fired, its record has been swept, and it has      *)
(* fired again.                                                            *)
C1_Witness_FiredAgainAfterSweep ==
    \E i, j \in 1..Len(hist.fired) :
        /\ i < j
        /\ hist.fired[i].key = hist.fired[j].key
        /\ hist.fired[j].at > hist.fired[i].at

(* C2: when every tick so far ran one poll interval after the one before,  *)
(* with a readable feed cached and every delivery and write succeeding,    *)
(* then at the end of a tick that lies in the lead window of an occurrence *)
(* exactly one alert for that occurrence and lead time has been sent to    *)
(* every group with a delivery target.                                     *)
C2_ExactlyOncePerOccurrence ==
    (hist.nominal /\ poll.pc = "sleep" /\ poll.ended = "returned") =>
        \A g \in Targets : \A i \in 1..Len(boss_data) :
            LET occ == parse_time_str_to_utc(boss_data[i].time_str, poll.now)
                m == minutes_until(occ, poll.now)
                line == [g |-> g, name |-> boss_data[i].name, m |-> m, occ |-> occ]
            IN  InLeadMinutes(m) =>
                    line \in DOMAIN hist.emitted /\ hist.emitted[line] = 1

(* C6: a step in which the send for a group fails leaves the group's       *)
(* stored message reference as it was, and that reference is either empty  *)
(* or the id of a message that exists in the channel.                      *)
C6_LiveRefValidOnSendFailure ==
    [][\A g \in Groups :
          (g \notin poll.sfail /\ g \in poll'.sfail) =>
              /\ sent_alert_msg'[g] = sent_alert_msg[g]
              /\ sent_alert_msg'[g] = 0 \/ sent_alert_msg'[g] \in channel_msgs']_vars

(* C7: a tick in which the fetch, the delete or the send failed for some   *)
(* group is not left because of it: it goes through every remaining group  *)
(* with a delivery target and returns, unless a file write fails.          *)
C7_DeliveryFailureContained ==
    (poll.dfail # {} /\ poll.pc = "sleep") =>
        /\ poll.task = "running"
        /\ poll.ended = "returned" \/ (poll.ended = "OSError" /\ poll.wfail)
        /\ poll.ended = "returned" => Targets \subseteq poll.visited

(* C7 witness: the send to the first group failed and the same tick fired  *)
(* for the second group and delivered its message.                         *)
C7_Witness_LaterGroupDelivered ==
    /\ poll.pc = "sleep" /\ poll.ended = "returned"
    /\ AllGroups[1] \in poll.sfail
    /\ AllGroups[2] \in poll.visited \ poll.dfail
    /\ \E k \in 1..Len(hist.fired) :
          /\ hist.fired[k].at = poll.now
          /\ hist.fired[k].key[1] = AllGroups[2]
          /\ [g |-> AllGroups[2], name |-> hist.fired[k].key[2],
              m |-> hist.fired[k].key[3], occ |-> hist.fired[k].occ]
                \in DOMAIN hist.emitted

(* C8: a tick over a feed with an unreadable row is not left by an        *)
(* exception of the resolver: the loop is still running and, for every     *)
(* group with a delivery target, every readable row that lies in a lead    *)
(* window is recorded as fired.                                            *)
C8_MalformedEntrySkipped ==
    (TickOver /\ poll.ended # "OSError" /\ clock = poll.now) =>
        /\ poll.task = "running"
        /\ \A g \in Targets : \A i \in 1..Len(boss_data) :
              ~ParseRaises(boss_data[i].time_str) =>
                  LET occ == parse_time_str_to_utc(boss_data[i].time_str, poll.now)
                      m == minutes_until(occ, poll.now)
                  IN  InLeadMinutes(m) =>
                          alert_id(g, boss_data[i].name, m) \in DOMAIN sent_alerts

(* C9: after a file write has failed in an iteration (in the sweep, after  *)
(* recording firings, or after a send) the loop is still running.          *)
C9_WriteFailureKeepsLoop ==
    poll.wfail => poll.task = "running"

(* C9 witness: an iteration that started after one with a failed write     *)
(* has gone through its groups and returned.                               *)
C9_Witness_TickAfterFailedWrite ==
    /\ poll.retried
    /\ poll.ended = "returned"
    /\ poll.visited # {}

(* C10: once the ready event has started the poll loop, the refresh loop   *)
(* is running as well, so that its refresh action can happen.              *)
C10_RefreshLoopRunning ==
    ready_count > 0 => refresh = "running"
---------------------------------------------------------------------------
(* Properties of the loop together with the commands, under SpecCommands *)

Latest(ids) == CHOOSE x \in ids : \A y \in ids : y <= x

(* C5: whenever a message has been sent to a group after an earlier one,   *)
(* the removal of the earlier one was requested before the later one was   *)
(* sent, and the group's stored reference is the id of the latest message  *)
(* sent to it.                                                             *)
C5_ReplaceNotAppend ==
    /\ hist.unrequested = {}
    /\ \A g \in Groups :
          hist.sent_to[g] # {} => sent_alert_msg[g] = Latest(hist.sent_to[g])
---------------------------------------------------------------------------
(* Properties of the loop's start, its idle ticks and its groups, under    *)
(* SpecLoop                                                                *)

(* C11: however many ready events have been handled, at most one task of   *)
(* the poll loop is alive, and one is alive exactly when the loop is       *)
(* running.                                                                *)
C11_OnePollLoop ==
    /\ poll.tasks <= 1
    /\ poll.task = "running" <=> poll.tasks = 1

(* C11 witness: a second ready event has been handled while the loop       *)
(* started by the first was running, and a tick has run since.             *)
C11_Witness_ReadyWhileRunning ==
    /\ ready_count >= 2
    /\ hist.nominal
    /\ poll.tasks = 1
    /\ poll.ended = "returned"

(* C12: a step taken while the loop waits for its next tick and the cache  *)
(* is absent or empty, the start of a tick included, adds no key to the    *)
(* ledger and changes no time stamp in it, fires nothing, sends and        *)
(* deletes no message and leaves every stored message reference as it was. *)
C12_NoDataTickIsNoOp ==
    [][(poll.task = "running" /\ poll.pc = "sleep"
          /\ (boss_data = "unset" \/ boss_data = << >>)) =>
            /\ \A k \in DOMAIN sent_alerts' :
                  k \in DOMAIN sent_alerts /\ sent_alerts'[k] = sent_alerts[k]
            /\ hist'.fired = hist.fired
            /\ channel_msgs' = channel_msgs
            /\ next_id' = next_id
            /\ sent_alert_msg' = sent_alert_msg
            /\ poll'.pc = "sleep"]_vars

(* C12 witness: a tick was skipped for lack of data while the ledger held  *)
(* a key and a group had a live message.                                   *)
C12_Witness_SkippedWithLedger ==
    /\ poll.ended = "skipped"
    /\ boss_data # "unset"
    /\ boss_data = << >>
    /\ sent_alerts # EmptyMap
    /\ \E g \in Groups : sent_alert_msg[g] \in channel_msgs

(* C13: no step records a ledger key for a group without a delivery        *)
(* target, sends to it or changes its stored message reference, and a      *)
(* tick that returns has gone through every group that has a target and    *)
(* through no other.                                                       *)
C13_GroupWithoutTargetSkipped ==
    [][\A g \in Groups \ Targets :
          /\ \A k \in DOMAIN sent_alerts' : k[1] = g => k \in DOMAIN sent_alerts
          /\ \A n \in 1..Len(hist'.fired) :
                hist'.fired[n].key[1] = g => n <= Len(hist.fired)
          /\ hist'.sent_to[g] = hist.sent_to[g]
          /\ sent_alert_msg'[g] = sent_alert_msg[g]
          /\ poll'.ended = "returned" =>
                g \notin poll'.visited /\ Targets \subseteq poll'.visited]_vars

(* C13 witness: the first group has no delivery target, and a tick has     *)
(* fired for the second group and delivered its message.                   *)
C13_Witness_SkippedThenDelivered ==
    /\ guild_config[AllGroups[1]] = 0
    /\ poll.ended = "returned"
    /\ AllGroups[2] \in poll.visited
    /\ sent_alert_msg[AllGroups[2]] \in channel_msgs
    /\ \E n \in 1..Len(hist.fired) :
          hist.fired[n].at = poll.now /\ hist.fired[n].key[1] = AllGroups[2]
---------------------------------------------------------------------------
(* Aggregation check: the next-occurrence maps built from bounded feeds *)

MaxFeed == 3
AggNames == {"Kzarka", "Vell"}
AggTexts == {TimeStr("Mon", 10, 0), TimeStr("Thu", 22, 0),
             TimeStr("Tue", 18, 15), BadTimeStr}
AggEntries == { [name |-> n, time_str |-> t] : n \in AggNames, t \in AggTexts }
AggFeeds == UNION { [1..n -> AggEntries] : n \in 1..MaxFeed }

(* Readings: Mon 10:00:00, Tue 18:09:45, Tue 18:15:00 and Fri 16:00:00     *)
(* Pacific; the map is built at once or a minute after the reading.        *)
AggNows == {18 * HOUR, FirstReading, Anchor, 5 * DAY}
AggDelays == {0, MINUTE}

InitAggregate ==
    /\ SystemIdle
    /\ ResolverIdle
    /\ a_now \in AggNows
    /\ a_clk \in { a_now + dl : dl \in AggDelays }
    /\ a_feed \in AggFeeds
    /\ a_out = [state |-> "none"]

(* testpoll builds its map unless the resolver raises on an entry;         *)
(* on_ready always builds one.                                             *)
Aggregate ==
    /\ a_out.state = "none"
    /\ a_out' = [state |-> "built",
                 raised |-> ~WellFormed(a_feed),
                 testpoll |-> IF WellFormed(a_feed)
                              THEN next_spawns(a_feed, 1, a_now, a_clk, EmptyMap)
                              ELSE EmptyMap,
                 summary |-> summary_spawns(a_feed, a_now, a_clk)]
    /\ UNCHANGED <<a_now, a_clk, a_feed>>

NextAggregate == Aggregate /\ UNCHANGED <<sysvars, resvars>>

SpecAggregate == InitAggregate /\ [][NextAggregate]_vars

(* The instants the resolver gives for the readable entries of subject n. *)
ResolvedFor(n) ==
    { parse_time_str_to_utc(a_feed[i].time_str, a_clk) :
        i \in { j \in 1..Len(a_feed) :
                  a_feed[j].name = n /\ ~ParseRaises(a_feed[j].time_str) } }
Earliest(ts) == CHOOSE x \in ts : \A y \in ts : x <= y
Minimal(map) ==
    /\ DOMAIN map = { n \in AggNames : ResolvedFor(n) # {} }
    /\ \A n \in DOMAIN map : map[n] = Earliest(ResolvedFor(n))

(* C14: a next-occurrence map built from a feed, by /testpoll or by the    *)
(* ready handler, holds every subject that has a readable entry, and for   *)
(* each the minimum of the instants resolved for its entries.              *)
C14_AggregationMinimal ==
    a_out.state = "built" =>
        /\ Minimal(a_out.summary)
        /\ ~a_out.raised => Minimal(a_out.testpoll)

(* C14 witness: a subject listed for Mon 10:00 and Thu 22:00, aggregated   *)
(* on the Tuesday between them, is kept at Thu 22:00 Pacific of that week.  *)
C14_Witness_NearerOfTwo ==
    /\ a_out.state = "built"
    /\ a_now = FirstReading
    /\ a_feed = << [name |-> "Kzarka", time_str |-> TimeStr("Mon", 10, 0)],
                   [name |-> "Kzarka", time_str |-> TimeStr("Thu", 22, 0)] >>
    /\ a_out.testpoll["Kzarka"] = 4 * DAY + 6 * HOUR
    /\ a_out.summary["Kzarka"] = 4 * DAY + 6 * HOUR
---------------------------------------------------------------------------
(* Properties of the ledger's expiry, under SpecLoop *)

(* The log positions at which key k was put into a firing set. *)
FiringsOf(k) == { n \in 1..Len(hist.fired) : hist.fired[n].key = k }

(* The latest tick ran at the present clock reading over the cached feed   *)
(* and went through all its groups.                                        *)
TickReturned ==
    /\ poll.pc = "sleep"
    /\ poll.ended = "returned"
    /\ clock = poll.now
    /\ boss_data # "unset"

(* C15: when a tick finds a row in a lead window whose key fired before,   *)
(* every earlier firing of the key lying more than the retention hour      *)
(* back, the tick fires the key again, for every group with a target.      *)
C15_RefiresAfterExpiry ==
    TickReturned =>
        \A g \in Targets : \A i \in 1..Len(boss_data) :
            LET occ == parse_time_str_to_utc(boss_data[i].time_str, poll.now)
                m == minutes_until(occ, poll.now)
                k == alert_id(g, boss_data[i].name, m)
            IN  (/\ InLeadMinutes(m)
                 /\ \E n \in FiringsOf(k) : hist.fired[n].at < poll.now
                 /\ \A n \in FiringsOf(k) :
                       \/ hist.fired[n].at = poll.now
                       \/ poll.now - hist.fired[n].at > CLEANUP_HOURS * HOUR)
                => \E n \in FiringsOf(k) : hist.fired[n].at = poll.now

(* C15 witness: a tick has fired a key for a new occurrence, more than an  *)
(* hour after the key fired for an earlier occurrence.                     *)
C15_Witness_NewOccurrenceFired ==
    /\ TickReturned
    /\ \E i, j \in 1..Len(hist.fired) :
          /\ hist.fired[i].key = hist.fired[j].key
          /\ hist.fired[j].at = poll.now
          /\ hist.fired[j].at - hist.fired[i].at > CLEANUP_HOURS * HOUR
          /\ hist.fired[j].occ # hist.fired[i].occ

(* C16: no key is put into a firing set twice for the same occurrence.     *)
C16_OncePerOccurrence ==
    \A i, j \in 1..Len(hist.fired) :
        (hist.fired[i].key = hist.fired[j].key
           /\ hist.fired[i].occ = hist.fired[j].occ) => i = j

(* C16 witness: a key has fired, its record has been swept, and a tick has *)
(* gone through its groups after the sweep.                                *)
C16_Witness_TickAfterSweep ==
    /\ TickReturned
    /\ \E n \in 1..Len(hist.fired) :
          /\ hist.fired[n].key \notin DOMAIN sent_alerts
          /\ poll.now - hist.fired[n].at > CLEANUP_HOURS * HOUR
---------------------------------------------------------------------------
(* The scenario of one entry (Dragon, Tue 18:15): the loop is running with *)
(* the feed cached and an empty ledger, its ticks run at Tue 17:45:00,     *)
(* 17:45:10, 17:45:20, 18:00:00 and 18:10:00 Pacific, each over before     *)
(* the next, and the ledger's file is writable.                            *)

SiteDragon == << Entry("Dragon", "Tue", 18, 15) >>
ScenarioTimes ==
    << Anchor - 30 * MINUTE, Anchor - 30 * MINUTE + 10, Anchor - 30 * MINUTE + 20,
       Anchor - 15 * MINUTE, Anchor - 5 * MINUTE >>

InitScenario ==
    /\ clock = ScenarioTimes[1]
    /\ site = SiteDragon
    /\ boss_data = SiteDragon
    /\ guild_config \in Configs
    /\ sent_alerts = EmptyMap
    /\ alerts_file = EmptyMap
    /\ sent_alert_msg = [g \in Groups |-> 0]
    /\ alert_msg_file = [g \in Groups |-> 0]
    /\ channel_msgs = {}
    /\ next_id = 1
    /\ poll = PollIdle("running")
    /\ tp = TpIdle(0)
    /\ ready_count = 1
    /\ refresh = "unstarted"
    /\ hist = HistInit
    /\ ResolverIdle
    /\ AggregateIdle

AdvanceScenario ==
    /\ poll.pc = "sleep"
    /\ poll.now = clock
    /\ \E n \in 1..(Len(ScenarioTimes) - 1) :
          clock = ScenarioTimes[n] /\ clock' = ScenarioTimes[n + 1]
    /\ UNCHANGED <<site, boss_data, guild_config, sent_alerts, alerts_file,
                   sent_alert_msg, alert_msg_file, channel_msgs, next_id, poll, tp, ready_count,
                   refresh, hist, resvars, aggvars>>

NextScenario ==
    \/ AdvanceScenario
    \/ PollStart(TRUE, TRUE)
    \/ \E ok \in BOOLEAN : PollFetched(ok)
    \/ \E ok \in BOOLEAN : PollDeleted(ok)
    \/ \E ok, file_ok \in BOOLEAN : PollSent(ok, file_ok, TRUE)

SpecScenario == InitScenario /\ [][NextScenario]_vars

(* C17: in the scenario the tick at Tue 18:00 computes 15 minutes and      *)
(* fires nothing, and once a tick has gone through its groups the key      *)
(* (group, Dragon, 30) has fired exactly once for every group with a       *)
(* target, and never more than once.                                       *)
C17_DragonScenario ==
    /\ minutes_until(parse_time_str_to_utc(SiteDragon[1].time_str, ScenarioTimes[4]),
                     ScenarioTimes[4]) = 15
    /\ \A n \in 1..Len(hist.fired) : hist.fired[n].at # ScenarioTimes[4]
    /\ \A g \in Targets :
          /\ Cardinality(FiringsOf(alert_id(g, "Dragon", LEAD_MID))) <= 1
          /\ (poll.pc = "sleep" /\ poll.ended = "returned") =>
                Cardinality(FiringsOf(alert_id(g, "Dragon", LEAD_MID))) = 1

(* C17 witness: the ticks at 17:45:00, 17:45:10, 17:45:20 and 18:00:00     *)
(* have run and (Dragon, 30) has fired once, at 17:45:00.                  *)
C17_Witness_AfterTickAtSix ==
    /\ poll.now = ScenarioTimes[4]
    /\ poll.pc = "sleep"
    /\ poll.ended = "returned"
    /\ \E g \in Targets :
          \E n \in FiringsOf(alert_id(g, "Dragon", LEAD_MID)) :
              hist.fired[n].at = ScenarioTimes[1]
---------------------------------------------------------------------------
(* The firing rule, under SpecLoop *)

(* The firings a step adds to the log. *)
NewFirings == (Len(hist.fired) + 1)..Len(hist'.fired)

(* C18: a row that lies in a lead window at a tick has its key in the      *)
(* ledger when the tick is over, for every group with a target; and a key  *)
(* is put into a firing set only for such a group, with the minutes the    *)
(* floor of (instant - now) / 60, a member of the lead set, the key absent *)
(* from the ledger at that moment, recorded with the tick's time in the    *)
(* same step and reported once in it.                                      *)
C18_FiringRule ==
    /\ [](TickReturned =>
            \A g \in Targets : \A i \in 1..Len(boss_data) :
                LET occ == parse_time_str_to_utc(boss_data[i].time_str, poll.now)
                    m == minutes_until(occ, poll.now)
                IN  InLeadMinutes(m) =>
                        alert_id(g, boss_data[i].name, m) \in DOMAIN sent_alerts)
    /\ [][\A n \in NewFirings :
            LET f == hist'.fired[n] IN
            /\ f.key[1] \in Targets
            /\ f.key[3] = minutes_until(f.occ, f.at)
            /\ f.key[3] >= 0
            /\ InLeadMinutes(f.key[3])
            /\ f.key \in DOMAIN sent_alerts =>
                  /\ poll.pc = "sleep"
                  /\ sent_alerts[f.key] < clock - CLEANUP_HOURS * HOUR
            /\ \A k \in NewFirings : hist'.fired[k].key = f.key => k = n
            /\ f.key \in DOMAIN sent_alerts'
            /\ sent_alerts'[f.key] = f.at]_vars

(* C18 witness: a tick over a feed that lists the same row twice has       *)
(* fired its key once.                                                     *)
C18_Witness_SameRowTwice ==
    /\ TickReturned
    /\ boss_data = SiteTwice
    /\ \E g \in Targets :
          /\ Cardinality(FiringsOf(alert_id(g, "Kzarka", LEAD_SHORT))) = 1
          /\ \E n \in FiringsOf(alert_id(g, "Kzarka", LEAD_SHORT)) :
                hist.fired[n].at = poll.now

(* The instants the resolver gives at reading t for the readable rows of   *)
(* the page that list subject n.                                           *)
OccurrencesOf(n, t) ==
    { parse_time_str_to_utc(site[i].time_str, t) :
        i \in { j \in 1..Len(site) :
                  site[j].name = n /\ ~ParseRaises(site[j].time_str) } }

(* C19: every firing a step adds is for the soonest occurrence of its      *)
(* subject, the minimum of the instants resolved for the subject's rows.   *)
C19_OnlySoonestOccurrenceFires ==
    [][\A n \in NewFirings :
          hist'.fired[n].occ
              = Earliest(OccurrencesOf(hist'.fired[n].key[2], clock))]_vars
---------------------------------------------------------------------------
(* Recording and delivery, under SpecLoop *)

(* The ledger keys of the message whose delivery the tick is at. *)
PendingKeys ==
    { alert_id(PollGroup, poll.messages_to_send[k].name, poll.messages_to_send[k].m) :
        k \in 1..Len(poll.messages_to_send) }

(* The alert lines whose count of emissions a step raises. *)
NewlyEmitted ==
    { line \in DOMAIN hist'.emitted :
        line \notin DOMAIN hist.emitted \/ hist'.emitted[line] # hist.emitted[line] }

(* C20: while the delivery of a message is being attempted, the keys of    *)
(* its alerts are in the ledger and in the ledger's file with the tick's   *)
(* time; a failed send leaves them in the ledger and emits nothing; and an *)
(* alert line is emitted only by the tick that fired it, once.             *)
C20_RecordBeforeDelivery ==
    /\ [](poll.pc \in {"fetch_msg", "delete", "send"} =>
            \A k \in PendingKeys :
                /\ k \in DOMAIN sent_alerts /\ sent_alerts[k] = poll.now
                /\ k \in DOMAIN alerts_file /\ alerts_file[k] = poll.now)
    /\ [][\A g \in Groups :
            (g \notin poll.sfail /\ g \in poll'.sfail) =>
                /\ \A k \in PendingKeys :
                      k \in DOMAIN sent_alerts' /\ sent_alerts'[k] = poll.now
                /\ hist'.emitted = hist.emitted]_vars
    /\ [][\A line \in NewlyEmitted :
            /\ hist'.emitted[line] = 1
            /\ \E n \in 1..Len(hist.fired) :
                  /\ hist.fired[n].key = alert_id(line.g, line.name, line.m)
                  /\ hist.fired[n].occ = line.occ
                  /\ hist.fired[n].at = poll.now]_vars

(* C20 witness: the only group with a target had its key recorded and      *)
(* written to the file, its alert was not emitted, and a later tick inside *)
(* the same lead window has run and left it so.                            *)
C20_Witness_LostAfterFailedSend ==
    /\ TickReturned
    /\ Targets = {AllGroups[1]}
    /\ \E n \in 1..Len(hist.fired) :
          LET f == hist.fired[n] IN
          /\ f.at < poll.now
          /\ minutes_until(f.occ, poll.now) = f.key[3]
          /\ f.key \in DOMAIN sent_alerts
          /\ f.key \in DOMAIN alerts_file
          /\ [g |-> f.key[1], name |-> f.key[2], m |-> f.key[3], occ |-> f.occ]
                \notin DOMAIN hist.emitted
---------------------------------------------------------------------------
(* The sweep and the snapshots of a tick, under SpecLoop *)

(* The step is the start of a tick. *)
TickStarts ==
    /\ poll.task = "running"
    /\ poll.pc = "sleep"
    /\ clock' = clock
    /\ ready_count' = ready_count
    /\ poll' # poll \/ sent_alerts' # sent_alerts

(* C21: the start of a tick, also of one that is skipped for lack of       *)
(* cached data, removes every ledger entry that is more than the retention *)
(* hour old before anything is evaluated (such a key is then absent or     *)
(* recorded anew with the tick's time), and leaves every other entry in    *)
(* the ledger with its time stamp.                                         *)
C21_SweepEveryTick ==
    [][TickStarts =>
         \A k \in DOMAIN sent_alerts :
             IF clock - sent_alerts[k] > CLEANUP_HOURS * HOUR
             THEN k \in DOMAIN sent_alerts' => sent_alerts'[k] = clock
             ELSE k \in DOMAIN sent_alerts' /\ sent_alerts'[k] = sent_alerts[k]]_vars

(* C21 witness: a tick that found the cache empty has swept the ledger.    *)
C21_Witness_SkippedTickSwept ==
    /\ poll.ended = "skipped"
    /\ sent_alerts = EmptyMap
    /\ \E n \in 1..Len(hist.fired) :
          poll.now - hist.fired[n].at > CLEANUP_HOURS * HOUR
(* C22: the retention window that the sweep of a running poll loop uses is *)
(* strictly longer than every configured lead time plus one poll interval. *)
C22_RetentionExceedsLeadPlusPoll ==
    poll.task = "running" =>
        \A i \in 1..Len(ALERT_LEAD_MINUTES) :
            CLEANUP_HOURS * HOUR > ALERT_LEAD_MINUTES[i] * MINUTE + POLL_INTERVAL

(* The groups that the iteration that has just returned has evaluated. *)
EvaluatedGroups ==
    IF poll.pc = "sleep" /\ poll.ended = "returned" THEN poll.visited ELSE {}

(* C23: one iteration resolves and measures every row for every group      *)
(* against one reading of the clock, also when it waits for a delivery     *)
(* between two groups: a row that put a key of one group into the firing   *)
(* set of the iteration has given the same minutes for every other group   *)
(* that the iteration evaluated, so that group's key is in the ledger too. *)
C23_SingleClockSnapshot ==
    \A g \in EvaluatedGroups, h \in EvaluatedGroups, k \in DOMAIN sent_alerts :
        (k[1] = g /\ sent_alerts[k] = poll.now)
            => alert_id(h, k[2], k[3]) \in DOMAIN sent_alerts
(* C24: an iteration reads the cache once and evaluates every group        *)
(* against that snapshot, also when a ready event replaces the cache while *)
(* the iteration waits: the snapshot does not change until the iteration   *)
(* is over, and in an iteration during which the clock stood still a row   *)
(* that fired for one evaluated group is in the ledger for every other     *)
(* evaluated group.                                                        *)
C24_RawDataSnapshot ==
    /\ [](clock = poll.now =>
            \A g \in EvaluatedGroups, h \in EvaluatedGroups, k \in DOMAIN sent_alerts :
                (k[1] = g /\ sent_alerts[k] = poll.now)
                    => alert_id(h, k[2], k[3]) \in DOMAIN sent_alerts)
    /\ [][(poll.pc # "sleep" /\ poll'.pc # "sleep") => poll'.bosses = poll.bosses]_vars

(* C24 witness: both groups fired in one iteration although the cache was  *)
(* emptied while the iteration waited for the first delivery.              *)
C24_Witness_CacheReplacedMidTick ==
    /\ clock = poll.now
    /\ EvaluatedGroups = Groups
    /\ boss_data = << >>
    /\ \A g \in Groups : \E k \in DOMAIN sent_alerts :
          k[1] = g /\ sent_alerts[k] = poll.now
(* The cache holds a feed with at least one row. *)
Cached(data) == IF data = "unset" THEN FALSE ELSE data # << >>

(* C28: a fetch that fails or returns an empty feed does not discard the   *)
(* cached rows: a cache that holds a non-empty feed holds one after every  *)
(* step, so the iterations that follow evaluate it.                        *)
C28_CacheKeptOnEmptyFetch ==
    [][Cached(boss_data) => Cached(boss_data')]_vars

---------------------------------------------------------------------------
(* The resolver across the change of offset, under SpecResolver *)

(* C25: when the change to daylight-saving time lies between the current   *)
(* instant and the returned one, the returned instant is the one at which  *)
(* the wall clock of the reference zone shows the weekday, hour and minute *)
(* of the recurrence text.                                                 *)
C25_ResolverAcrossDst ==
    (r_out.state = "ok" /\ r_now < DstBegin /\ DstBegin <= r_out.utc)
        => LET wall == LocalOf(r_out.utc)
           IN  /\ Weekday(wall) = DAYS_MAP[r_entry.day]
               /\ wall % DAY = r_entry.hour * HOUR + r_entry.minute * MINUTE
---------------------------------------------------------------------------
(* The commands beside the loop, under SpecCommands *)

(* The alert messages of group g that are still in its channel. *)
Undeleted(g) == hist.sent_to[g] \cap channel_msgs

(* C26: when no /testpoll and no iteration of the poll loop is under way,  *)
(* every alert message sent to a group that is still in its channel is     *)
(* the one the stored reference of the group names, or one whose removal   *)
(* was attempted (and failed).                                             *)
C26_NoUntrackedMessage ==
    (tp.pc = "idle" /\ poll.pc = "sleep")
        => \A g \in Groups : \A id \in Undeleted(g) :
               id = sent_alert_msg[g] \/ id \in hist.attempts
---------------------------------------------------------------------------
(* /testpoll and the ledger, under SpecCommands *)

(* C29: no step of /testpoll, whatever its outcome, adds, removes or       *)
(* changes an entry of the ledger in memory or in its file; the only       *)
(* stored message reference it can change is that of the invoking group.   *)
C29_TestPollLeavesLedger ==
    [][tp' # tp =>
         /\ sent_alerts' = sent_alerts
         /\ alerts_file' = alerts_file
         /\ \A g \in Groups :
               sent_alert_msg'[g] # sent_alert_msg[g] => g = tp.g]_vars

(* C29 witness: a group has received the message of a test poll and the    *)
(* one alert of the poll loop, whose key the ledger holds.                 *)
C29_Witness_TestPollAndAlert ==
    /\ tp.runs > 0
    /\ tp.pc = "idle"
    /\ \E g \in Groups :
          /\ Cardinality(hist.sent_to[g]) = 2
          /\ \A l \in DOMAIN hist.emitted : l.g = g => hist.emitted[l] = 1
          /\ \E k \in DOMAIN sent_alerts : k[1] = g

---------------------------------------------------------------------------
(* /setupalerts beside the loop, under SpecSetup *)

(* The step resumes, after a delivery, an iteration during which a group   *)
(* was added to guild_config.                                              *)
ResumedAfterSetup ==
    /\ poll.pc = "send"
    /\ poll' # poll
    /\ Cardinality(DOMAIN guild_config) > poll.used

(* C27: a /setupalerts that adds a group while an iteration waits for a    *)
(* delivery does not abort the iteration: when the iteration goes on, it   *)
(* visits the groups that follow, and the poll loop keeps running.         *)
C27_SetupDuringTickHarmless ==
    [][ResumedAfterSetup =>
         /\ poll'.task = "running"
         /\ poll'.pc = "sleep" => poll'.ended \in {"returned", "OSError"}
         /\ \A j \in (poll.idx + 1)..Len(GroupOrder(guild_config)) :
               LET g == GroupOrder(guild_config)[j]
               IN  (guild_config[g] # 0 /\ poll'.ended = "returned")
                       => g \in poll'.visited]_vars
---------------------------------------------------------------------------
(* The ledger across a new start of the process, under SpecRestart *)

(* The alert lines that the step delivers. *)
DeliveredLines ==
    { l \in DOMAIN hist.emitted' :
        l \notin DOMAIN hist.emitted \/ hist.emitted'[l] > hist.emitted[l] }

(* The firing records that the step adds. *)
AddedFirings ==
    { hist.fired'[n] : n \in (Len(hist.fired) + 1)..Len(hist.fired') }

(* C30: at most once also across a new start of the process.  When an      *)
(* alert is delivered for a key, the ledger file already holds the key     *)
(* with the time of the iteration; the file keeps a key and its time while *)
(* the entry is no older than the retention hour; a process that is        *)
(* started again takes its ledger from the file; and no key that the file  *)
(* holds with a time within the retention hour is put into a firing set.   *)
C30_AtMostOnceAcrossRestart ==
    [][/\ \A l \in DeliveredLines :
            /\ alert_id(l.g, l.name, l.m) \in DOMAIN alerts_file
            /\ alerts_file[alert_id(l.g, l.name, l.m)] = poll.now
       /\ \A k \in DOMAIN alerts_file :
            clock' - alerts_file[k] <= CLEANUP_HOURS * HOUR
                => (k \in DOMAIN alerts_file' /\ alerts_file'[k] = alerts_file[k])
       /\ (hist.restarts' # hist.restarts) => (sent_alerts' = alerts_file)
       /\ \A f \in AddedFirings :
            (f.key \in DOMAIN alerts_file)
                => (clock - alerts_file[f.key] > CLEANUP_HOURS * HOUR)]_vars

(* C30 witness: after a new start of the process an iteration has run to   *)
(* its end within the retention hour of a delivered alert, whose key is in *)
(* the ledger with the time of its first firing, and nothing fired twice.  *)
C30_Witness_TickAfterRestart ==
    /\ hist.restarts > 0
    /\ poll.pc = "sleep"
    /\ poll.ended = "returned"
    /\ \E l \in DOMAIN hist.emitted :
          LET k == alert_id(l.g, l.name, l.m)
          IN  /\ k \in DOMAIN sent_alerts
              /\ sent_alerts[k] < poll.now
              /\ poll.now - sent_alerts[k] <= CLEANUP_HOURS * HOUR
              /\ l.g \in poll.visited
              /\ Cardinality(FiringsOf(k)) = 1

============================================================================
